---- MODULE Spec2Model ----
(***************************************************************************)
(* Transaction construction, fee normalisation and group binding of the    *)
(* go-algorand-sdk transaction package (MakePaymentTxn, MakeKeyRegTxn,     *)
(* MakeAssetCreateTxn, their flat-fee variants, AssignGroupID) and the     *)
(* ApplicationUpdateTransactionBuilder.                                     *)
(***************************************************************************)
EXTENDS Integers, Sequences, FiniteSets, TLC

VARIABLES pc, call, ret, txns, builder, built

vars == <<pc, call, ret, txns, builder, built>>

----------------------------------------------------------------------------
(* uint64 values.  A uint64 is kept at its full width as four 16-bit limbs, *)
(* least significant first, so that products wrap modulo 2^64 as Go's do.   *)

LimbBase == 2^16

NumLimbs == 64 \div 16

Limbs == 1..NumLimbs

U64(n) == [i \in Limbs |-> IF i = 1 THEN n % LimbBase
                           ELSE IF i = 2 THEN n \div LimbBase ELSE 0]

ZeroU64 == U64(0)

(* 2^63 and 2^63 - 1 *)
HighBitU64 == [i \in Limbs |-> IF i = NumLimbs THEN LimbBase \div 2 ELSE 0]

BelowHighBitU64 == [i \in Limbs |-> IF i = NumLimbs THEN (LimbBase \div 2) - 1
                                    ELSE LimbBase - 1]

RECURSIVE LtFrom(_, _, _)
LtFrom(a, b, i) ==
    IF i = 0 THEN FALSE
    ELSE IF a[i] # b[i] THEN a[i] < b[i]
    ELSE LtFrom(a, b, i - 1)

LtU64(a, b) == LtFrom(a, b, NumLimbs)

LeU64(a, b) == ~LtU64(b, a)

RECURSIVE MulFrom(_, _, _, _)
MulFrom(s, x, i, carry) ==
    IF i > NumLimbs THEN <<>>
    ELSE LET p == s * x[i] + carry
         IN  <<p % LimbBase>> \o MulFrom(s, x, i + 1, p \div LimbBase)

(* uint64(s) * x modulo 2^64, for a length s below 2^14 *)
MulU64(s, x) == MulFrom(s, x, 1, 0)

----------------------------------------------------------------------------
(* Protocol constants and fixed-width values.                               *)

MinTxnFee == 1000

(* [32]byte: types.Digest, types.Address, the keys *)
DigestLen == 32

AddressLen == 32

(* len(tx.AssetParams.UnitName), len(tx.AssetParams.AssetName) *)
UnitNameLen == 8

AssetNameLen == 32

Rep(n, v) == [i \in 1..n |-> v]

ZeroDigest == Rep(DigestLen, 0)

ZeroAddress == Rep(AddressLen, 0)

(* copy(dst[:], src) onto a zeroed array of n bytes: the first min(n, len)  *)
(* bytes of src, the rest left zero                                         *)
CopyInto(n, src) == [i \in 1..n |-> IF i <= Len(src) THEN src[i] ELSE 0]

NoErr == "nil"

----------------------------------------------------------------------------
(* The address codec: checksummed strings and the 32-byte keys they decode  *)
(* to.  Any other string, the empty one included, has no valid checksum.    *)

AddressBook ==
    [s \in {"ADDR_A", "ADDR_B", "ADDR_C"} |->
        IF s = "ADDR_A" THEN Rep(AddressLen, 1)
        ELSE IF s = "ADDR_B" THEN Rep(AddressLen, 2)
        ELSE Rep(AddressLen, 3)]

DecodeAddress(s) ==
    IF s \in DOMAIN AddressBook
    THEN [addr |-> AddressBook[s], err |-> NoErr]
    ELSE [addr |-> ZeroAddress, err |-> "address"]

----------------------------------------------------------------------------
(* base64.StdEncoding.DecodeString.  A base64 string is the sequence of its *)
(* characters' alphabet indexes 0..63; PadChar is '=' and BadChar stands    *)
(* for a character outside the alphabet.                                    *)

PadChar == 64

BadChar == 65

IsSextet(c) == c >= 0 /\ c < PadChar

Quantum(s, q) == SubSeq(s, 4 * q - 3, 4 * q)

QuantumBytes(c, last) ==
    IF IsSextet(c[1]) /\ IsSextet(c[2]) /\ IsSextet(c[3]) /\ IsSextet(c[4])
    THEN [ok |-> TRUE,
          bytes |-> << c[1] * 4 + c[2] \div 16,
                       (c[2] % 16) * 16 + c[3] \div 4,
                       (c[3] % 4) * 64 + c[4] >>]
    ELSE IF last /\ IsSextet(c[1]) /\ IsSextet(c[2]) /\ IsSextet(c[3]) /\ c[4] = PadChar
    THEN [ok |-> TRUE,
          bytes |-> << c[1] * 4 + c[2] \div 16,
                       (c[2] % 16) * 16 + c[3] \div 4 >>]
    ELSE IF last /\ IsSextet(c[1]) /\ IsSextet(c[2]) /\ c[3] = PadChar /\ c[4] = PadChar
    THEN [ok |-> TRUE, bytes |-> << c[1] * 4 + c[2] \div 16 >>]
    ELSE [ok |-> FALSE, bytes |-> <<>>]

RECURSIVE DecodeQuanta(_, _)
DecodeQuanta(s, q) ==
    IF q > Len(s) \div 4 THEN [ok |-> TRUE, bytes |-> <<>>]
    ELSE LET head == QuantumBytes(Quantum(s, q), q = Len(s) \div 4)
             rest == DecodeQuanta(s, q + 1)
         IN  IF head.ok /\ rest.ok
             THEN [ok |-> TRUE, bytes |-> head.bytes \o rest.bytes]
             ELSE [ok |-> FALSE, bytes |-> <<>>]

Base64Decode(s) ==
    IF Len(s) % 4 # 0 THEN [slice |-> <<>>, err |-> "base64"]
    ELSE LET d == DecodeQuanta(s, 1)
         IN  IF d.ok THEN [slice |-> d.bytes, err |-> NoErr]
             ELSE [slice |-> <<>>, err |-> "base64"]

byte32FromBase64(in) ==
    LET dec == Base64Decode(in)
    IN  IF dec.err # NoErr THEN [out |-> ZeroDigest, err |-> dec.err]
        ELSE IF Len(dec.slice) # 32 THEN [out |-> ZeroDigest, err |-> "not 32 bytes"]
        ELSE [out |-> CopyInto(DigestLen, dec.slice), err |-> NoErr]

----------------------------------------------------------------------------
(* types.Transaction and its zero value.                                    *)

PaymentTx == "pay"

KeyRegistrationTx == "keyreg"

AssetConfigTx == "acfg"

(* The unset group identifier, and a digest as the value it was computed of *)
ZeroGroup == [set |-> FALSE, preimage |-> <<>>]

ZeroAssetParams ==
    [Total |-> 0, DefaultFrozen |-> FALSE,
     UnitName |-> Rep(UnitNameLen, 0), AssetName |-> Rep(AssetNameLen, 0),
     Manager |-> ZeroAddress, Reserve |-> ZeroAddress,
     Freeze |-> ZeroAddress, Clawback |-> ZeroAddress]

ZeroStateSchema == [NumUint |-> 0, NumByteSlice |-> 0]

NoOpOC == 0

OptInOC == 1

ZeroKeyregTxnFields ==
    [VotePK |-> ZeroDigest, SelectionPK |-> ZeroDigest,
     VoteFirst |-> 0, VoteLast |-> 0, VoteKeyDilution |-> 0]

ZeroPaymentTxnFields ==
    [Receiver |-> ZeroAddress, Amount |-> 0, CloseRemainderTo |-> ZeroAddress]

ZeroAssetConfigTxnFields == [ConfigAsset |-> 0, AssetParams |-> ZeroAssetParams]

ZeroAssetTransferTxnFields ==
    [XferAsset |-> 0, AssetAmount |-> 0, AssetSender |-> ZeroAddress,
     AssetReceiver |-> ZeroAddress, AssetCloseTo |-> ZeroAddress]

ZeroAssetFreezeTxnFields ==
    [FreezeAccount |-> ZeroAddress, FreezeAsset |-> 0, AssetFrozen |-> FALSE]

ZeroApplicationCallTxnFields ==
    [ApplicationID |-> 0, OnCompletion |-> NoOpOC,
     LocalStateSchema |-> ZeroStateSchema, GlobalStateSchema |-> ZeroStateSchema]

ZeroHeader ==
    [Sender |-> ZeroAddress, Fee |-> ZeroU64, FirstValid |-> 0, LastValid |-> 0,
     Note |-> <<>>, GenesisID |-> "", GenesisHash |-> ZeroDigest,
     Group |-> ZeroGroup]

(* types.Transaction{} *)
ZeroTx ==
    [Type |-> "",
     Header |-> ZeroHeader,
     KeyregTxnFields |-> ZeroKeyregTxnFields,
     PaymentTxnFields |-> ZeroPaymentTxnFields,
     AssetConfigTxnFields |-> ZeroAssetConfigTxnFields,
     AssetTransferTxnFields |-> ZeroAssetTransferTxnFields,
     AssetFreezeTxnFields |-> ZeroAssetFreezeTxnFields,
     ApplicationCallTxnFields |-> ZeroApplicationCallTxnFields]

----------------------------------------------------------------------------
(* The size estimator.  crypto.SignTransaction yields the canonical         *)
(* encoding of the signed transaction: a field at its zero value is left    *)
(* out, an integer takes 1, 2, 3, 5 or 9 bytes, a byte string its length    *)
(* and a header.  signFails is the signing primitive's failure.             *)

UintLen(x) ==
    IF x[4] # 0 \/ x[3] # 0 THEN 9
    ELSE IF x[2] # 0 THEN 5
    ELSE IF x[1] >= 256 THEN 3
    ELSE IF x[1] >= 128 THEN 2
    ELSE 1

Field(keyLen, present, valueLen) ==
    IF present THEN 1 + keyLen + valueLen ELSE 0

UintField(keyLen, x) == Field(keyLen, x # ZeroU64, UintLen(x))

BytesField(keyLen, b, zero) == Field(keyLen, b # zero, 2 + Len(b))

StringField(keyLen, str) == Field(keyLen, str # "", 1 + Len(str))

EncodedLen(txn) ==
    LET h == txn.Header
        pay == txn.PaymentTxnFields
        kr == txn.KeyregTxnFields
        ap == txn.AssetConfigTxnFields.AssetParams
    IN    StringField(4, txn.Type)
        + BytesField(3, h.Sender, ZeroAddress)
        + UintField(3, h.Fee)
        + UintField(2, U64(h.FirstValid))
        + UintField(2, U64(h.LastValid))
        + BytesField(4, h.Note, <<>>)
        + StringField(3, h.GenesisID)
        + BytesField(2, h.GenesisHash, ZeroDigest)
        + BytesField(3, pay.Receiver, ZeroAddress)
        + UintField(3, U64(pay.Amount))
        + BytesField(5, pay.CloseRemainderTo, ZeroAddress)
        + BytesField(7, kr.VotePK, ZeroDigest)
        + BytesField(6, kr.SelectionPK, ZeroDigest)
        + UintField(7, U64(kr.VoteFirst))
        + UintField(7, U64(kr.VoteLast))
        + UintField(6, U64(kr.VoteKeyDilution))
        + Field(4, ap # ZeroAssetParams,
                  1 + UintField(1, U64(ap.Total))
                    + Field(2, ap.DefaultFrozen, 1)
                    + BytesField(2, ap.UnitName, Rep(UnitNameLen, 0))
                    + BytesField(2, ap.AssetName, Rep(AssetNameLen, 0))
                    + BytesField(1, ap.Manager, ZeroAddress)
                    + BytesField(1, ap.Reserve, ZeroAddress)
                    + BytesField(1, ap.Freeze, ZeroAddress)
                    + BytesField(1, ap.Clawback, ZeroAddress))

(* the signature and the envelope of the signed transaction *)
SignedLen(txn) == 1 + (4 + 66) + (4 + 1) + EncodedLen(txn)

SignTransaction(txn, signFails) ==
    IF signFails THEN [stx |-> 0, err |-> "sign"]
    ELSE [stx |-> SignedLen(txn), err |-> NoErr]

estimateSize(txn, signFails) ==
    LET signed == SignTransaction(txn, signFails)
    IN  IF signed.err # NoErr THEN [size |-> 0, err |-> signed.err]
        ELSE [size |-> signed.stx, err |-> NoErr]

----------------------------------------------------------------------------
(* The constructors.  Each takes the call's arguments a and yields the      *)
(* returned pair (tx, err) together with decoded, the strings the call      *)
(* handed to the address decoder, in order.                                 *)

Return(tx, err, decoded) == [tx |-> tx, err |-> err, decoded |-> decoded]

(* Variant: the optional address decoded without the test for "".          *)
OptionalAddressAlwaysDecoded(s) ==
    [called |-> TRUE, addr |-> DecodeAddress(s).addr, err |-> DecodeAddress(s).err]

(* if s != "" { addr, err = types.DecodeAddress(s) }: an optional address   *)
(* is decoded only when it is not the empty string                          *)
OptionalAddress(s) ==
    IF s # ""
    THEN [called |-> TRUE, addr |-> DecodeAddress(s).addr, err |-> DecodeAddress(s).err]
    ELSE [called |-> FALSE, addr |-> ZeroAddress, err |-> NoErr]

(* the decoder's log after an optional address *)
Logged(log, s, opt) == IF opt.called THEN Append(log, s) ELSE log

(* if tx.Fee < MinTxnFee { tx.Fee = MinTxnFee } *)
FloorFee(tx) ==
    IF LtU64(tx.Header.Fee, U64(MinTxnFee))
    THEN [tx EXCEPT !.Header.Fee = U64(MinTxnFee)]
    ELSE tx

MakePaymentTxn(a) ==
    LET from == DecodeAddress(a.from)
        to == DecodeAddress(a.to)
        close == OptionalAddress(a.closeRemainderTo)
        closeRemainderToAddr == close.addr
        log == Logged(<<a.from, a.to>>, a.closeRemainderTo, close)
        gh == CopyInto(DigestLen, a.genesisHash)
        tx == [ZeroTx EXCEPT
                 !.Type = PaymentTx,
                 !.Header = [Sender |-> from.addr,
                             Fee |-> a.fee,
                             FirstValid |-> a.firstRound,
                             LastValid |-> a.lastRound,
                             Note |-> a.note,
                             GenesisID |-> a.genesisID,
                             GenesisHash |-> gh,
                             Group |-> ZeroGroup],
                 !.PaymentTxnFields = [Receiver |-> to.addr,
                                       Amount |-> a.amount,
                                       CloseRemainderTo |-> closeRemainderToAddr]]
        eSize == estimateSize(tx, a.signFails)
    IN  IF from.err # NoErr THEN Return(ZeroTx, from.err, <<a.from>>)
        ELSE IF to.err # NoErr THEN Return(ZeroTx, to.err, <<a.from, a.to>>)
        ELSE IF close.err # NoErr THEN Return(ZeroTx, close.err, log)
        ELSE IF Len(a.genesisHash) = 0
             THEN Return(ZeroTx, "genesisHash missing", log)
        ELSE IF eSize.err # NoErr THEN Return(ZeroTx, eSize.err, log)
        ELSE Return(FloorFee([tx EXCEPT !.Header.Fee = MulU64(eSize.size, a.fee)]),
                    NoErr, log)

(* Variant: the flat fee written without the floor that follows it.        *)
MakePaymentTxnWithFlatFeeUnfloored(a) ==
    LET made == MakePaymentTxn(a)
    IN  IF made.err # NoErr THEN Return(ZeroTx, made.err, made.decoded)
        ELSE Return([made.tx EXCEPT !.Header.Fee = a.fee], NoErr, made.decoded)

MakePaymentTxnWithFlatFee(a) ==
    LET made == MakePaymentTxn(a)
    IN  IF made.err # NoErr THEN Return(ZeroTx, made.err, made.decoded)
        ELSE Return(FloorFee([made.tx EXCEPT !.Header.Fee = a.fee]),
                    NoErr, made.decoded)

MakeKeyRegTxn(a) ==
    LET account == DecodeAddress(a.account)
        ghBytes == byte32FromBase64(a.genesisHash)
        votePKBytes == byte32FromBase64(a.voteKey)
        selectionPKBytes == byte32FromBase64(a.selectionKey)
        log == <<a.account>>
        tx == [ZeroTx EXCEPT
                 !.Type = KeyRegistrationTx,
                 !.Header = [Sender |-> account.addr,
                             Fee |-> a.fee,
                             FirstValid |-> a.firstRound,
                             LastValid |-> a.lastRound,
                             Note |-> a.note,
                             GenesisID |-> a.genesisID,
                             GenesisHash |-> ghBytes.out,
                             Group |-> ZeroGroup],
                 !.KeyregTxnFields = [VotePK |-> votePKBytes.out,
                                      SelectionPK |-> selectionPKBytes.out,
                                      VoteFirst |-> a.voteFirst,
                                      VoteLast |-> a.voteLast,
                                      VoteKeyDilution |-> a.voteKeyDilution]]
        eSize == estimateSize(tx, a.signFails)
    IN  IF account.err # NoErr THEN Return(ZeroTx, account.err, log)
        ELSE IF ghBytes.err # NoErr THEN Return(ZeroTx, ghBytes.err, log)
        ELSE IF votePKBytes.err # NoErr THEN Return(ZeroTx, votePKBytes.err, log)
        ELSE IF selectionPKBytes.err # NoErr
             THEN Return(ZeroTx, selectionPKBytes.err, log)
        ELSE IF eSize.err # NoErr THEN Return(ZeroTx, eSize.err, log)
        ELSE Return(FloorFee([tx EXCEPT !.Header.Fee = MulU64(eSize.size, a.fee)]),
                    NoErr, log)

MakeKeyRegTxnWithFlatFee(a) ==
    LET made == MakeKeyRegTxn(a)
    IN  IF made.err # NoErr THEN Return(ZeroTx, made.err, made.decoded)
        ELSE Return(FloorFee([made.tx EXCEPT !.Header.Fee = a.fee]),
                    NoErr, made.decoded)

(* MakeAssetCreateTxn fills tx in place and returns tx itself, as filled so *)
(* far, from the checks that precede the header.                            *)
MakeAssetCreateTxn(a) ==
    LET tx0 == [ZeroTx EXCEPT
                  !.Type = AssetConfigTx,
                  !.AssetConfigTxnFields.AssetParams =
                      [ZeroAssetParams EXCEPT !.Total = a.total,
                                              !.DefaultFrozen = a.defaultFrozen]]
        manager == OptionalAddress(a.manager)
        tx1 == [tx0 EXCEPT !.AssetConfigTxnFields.AssetParams.Manager = manager.addr]
        log1 == Logged(<<>>, a.manager, manager)
        reserve == OptionalAddress(a.reserve)
        tx2 == [tx1 EXCEPT !.AssetConfigTxnFields.AssetParams.Reserve = reserve.addr]
        log2 == Logged(log1, a.reserve, reserve)
        freeze == OptionalAddress(a.freeze)
        tx3 == [tx2 EXCEPT !.AssetConfigTxnFields.AssetParams.Freeze = freeze.addr]
        log3 == Logged(log2, a.freeze, freeze)
        clawback == OptionalAddress(a.clawback)
        tx4 == [tx3 EXCEPT !.AssetConfigTxnFields.AssetParams.Clawback = clawback.addr]
        log4 == Logged(log3, a.clawback, clawback)
        tx5 == [tx4 EXCEPT !.AssetConfigTxnFields.AssetParams.UnitName =
                               CopyInto(UnitNameLen, a.unitName)]
        tx6 == [tx5 EXCEPT !.AssetConfigTxnFields.AssetParams.AssetName =
                               CopyInto(AssetNameLen, a.assetName)]
        account == DecodeAddress(a.account)
        log5 == Append(log4, a.account)
        ghBytes == byte32FromBase64(a.genesisHash)
        tx7 == [tx6 EXCEPT !.Header = [Sender |-> account.addr,
                                       Fee |-> a.fee,
                                       FirstValid |-> a.firstRound,
                                       LastValid |-> a.lastRound,
                                       GenesisHash |-> ghBytes.out,
                                       GenesisID |-> a.genesisID,
                                       Note |-> a.note,
                                       Group |-> ZeroGroup]]
        eSize == estimateSize(tx7, a.signFails)
    IN  IF manager.err # NoErr THEN Return(tx1, manager.err, log1)
        ELSE IF reserve.err # NoErr THEN Return(tx2, reserve.err, log2)
        ELSE IF freeze.err # NoErr THEN Return(tx3, freeze.err, log3)
        ELSE IF clawback.err # NoErr THEN Return(tx4, clawback.err, log4)
        ELSE IF Len(a.unitName) > UnitNameLen
             THEN Return(tx4, "unit name too long", log4)
        ELSE IF Len(a.assetName) > AssetNameLen
             THEN Return(tx5, "asset name too long", log4)
        ELSE IF account.err # NoErr THEN Return(ZeroTx, account.err, log5)
        ELSE IF ghBytes.err # NoErr THEN Return(ZeroTx, ghBytes.err, log5)
        ELSE IF eSize.err # NoErr THEN Return(ZeroTx, eSize.err, log5)
        ELSE Return([tx7 EXCEPT !.Header.Fee = MulU64(eSize.size, a.fee)],
                    NoErr, log5)

MakeAssetCreateTxnWithFlatFee(a) ==
    LET made == MakeAssetCreateTxn(a)
    IN  IF made.err # NoErr THEN Return(ZeroTx, made.err, made.decoded)
        ELSE Return(FloorFee([made.tx EXCEPT !.Header.Fee = a.fee]),
                    NoErr, made.decoded)

----------------------------------------------------------------------------
(* The group binder.                                                        *)

(* crypto.ComputeGroupID: a digest of the whole ordered sequence, kept as   *)
(* the sequence it was computed of; groupFails is the encoder's failure.    *)
ComputeGroupID(group, groupFails) ==
    IF groupFails THEN [gid |-> ZeroGroup, err |-> "group"]
    ELSE [gid |-> [set |-> TRUE, preimage |-> group], err |-> NoErr]

(* account == "" || bytes.Compare(tx.Sender[:], decoded[:]) == 0 *)
IsSelected(tx, account, decoded) == account = "" \/ tx.Header.Sender = decoded

(* Variant: the pass writing through to the element of the slice, as      *)
(* `for i := range txns { txns[i].Group = gid }` would.                     *)
RangeBodyInPlace(mem, i, gid, selected, result) ==
    IF selected
    THEN [mem |-> [mem EXCEPT ![i].Header.Group = gid],
          result |-> Append(result, [mem[i] EXCEPT !.Header.Group = gid])]
    ELSE [mem |-> mem, result |-> result]

(* One pass of `for _, tx := range txns`: tx is a copy of mem[i]; the Group *)
(* is written onto the copy and the copy appended; mem is the caller's      *)
(* slice, which the pass leaves as it is.                                   *)
RangeBody(mem, i, gid, selected, result) ==
    LET tx == mem[i]
    IN  IF selected
        THEN [mem |-> mem,
              result |-> Append(result, [tx EXCEPT !.Header.Group = gid])]
        ELSE [mem |-> mem, result |-> result]

RECURSIVE RangeLoop(_, _, _, _, _, _)
RangeLoop(mem, i, gid, account, decoded, result) ==
    IF i > Len(mem) THEN [mem |-> mem, result |-> result]
    ELSE LET selected == IsSelected(mem[i], account, decoded)
             step == RangeBody(mem, i, gid, selected, result)
         IN  RangeLoop(step.mem, i + 1, gid, account, decoded, step.result)

(* Variant: the identifier computed over the selected transactions only.   *)
AssignGroupIDOfSelected(group, account, groupFails) ==
    LET dec == DecodeAddress(account)
        decoded == IF account # "" THEN dec.addr ELSE ZeroAddress
        chosen == SelectSeq(group, LAMBDA tx : IsSelected(tx, account, decoded))
        computed == ComputeGroupID(chosen, groupFails)
        loop == RangeLoop(group, 1, computed.gid, account, decoded, <<>>)
    IN  IF computed.err # NoErr
        THEN [result |-> <<>>, err |-> computed.err, mem |-> group]
        ELSE IF account # "" /\ dec.err # NoErr
        THEN [result |-> <<>>, err |-> dec.err, mem |-> group]
        ELSE [result |-> loop.result, err |-> NoErr, mem |-> loop.mem]

(* AssignGroupID(txns, account): the result, the error, and mem, the        *)
(* caller's slice after the call.                                           *)
AssignGroupID(group, account, groupFails) ==
    LET computed == ComputeGroupID(group, groupFails)
        dec == DecodeAddress(account)
        decoded == IF account # "" THEN dec.addr ELSE ZeroAddress
        loop == RangeLoop(group, 1, computed.gid, account, decoded, <<>>)
    IN  IF computed.err # NoErr
        THEN [result |-> <<>>, err |-> computed.err, mem |-> group]
        ELSE IF account # "" /\ dec.err # NoErr
        THEN [result |-> <<>>, err |-> dec.err, mem |-> group]
        ELSE [result |-> loop.result, err |-> NoErr, mem |-> loop.mem]

----------------------------------------------------------------------------
(* The application transaction builder.  A *types.Transaction is a pointer: *)
(* nil, or the record it points to (val).                                   *)

NilTransaction == [nil |-> TRUE]

(* &TransactionBuilder{}: Type, Header and the field groups, all zero *)
ZeroBuilder == ZeroTx

applicationId(tb, id) ==
    [tb EXCEPT !.ApplicationCallTxnFields.ApplicationID = id]

onCompletion(tb, oc) ==
    [tb EXCEPT !.ApplicationCallTxnFields.OnCompletion = oc]

optIn(tb, flag) ==
    IF flag THEN [tb EXCEPT !.ApplicationCallTxnFields.OnCompletion = OptInOC]
    ELSE [tb EXCEPT !.ApplicationCallTxnFields.OnCompletion = NoOpOC]

localStateSchema(tb, schema) ==
    [tb EXCEPT !.ApplicationCallTxnFields.LocalStateSchema = schema]

globalStateSchema(tb, schema) ==
    [tb EXCEPT !.ApplicationCallTxnFields.GlobalStateSchema = schema]

(* buildT: tx is the named result, which nothing allocates; the first       *)
(* assignment through it is a nil pointer dereference, a run-time panic.    *)
buildT(tb) ==
    LET tx == NilTransaction
    IN  IF tx.nil THEN [panic |-> TRUE, tx |-> tx]
        ELSE [panic |-> FALSE,
              tx |-> [nil |-> FALSE,
                      val |-> [tx.val EXCEPT
                          !.Type = tb.Type,
                          !.KeyregTxnFields = tb.KeyregTxnFields,
                          !.PaymentTxnFields = tb.PaymentTxnFields,
                          !.AssetConfigTxnFields = tb.AssetConfigTxnFields,
                          !.AssetTransferTxnFields = tb.AssetTransferTxnFields,
                          !.AssetFreezeTxnFields = tb.AssetFreezeTxnFields,
                          !.ApplicationCallTxnFields = tb.ApplicationCallTxnFields]]]

buildBT(tb) == buildT(tb)

build(tb) == buildBT(tb)

----------------------------------------------------------------------------
(* Inputs.                                                                  *)

MaxNoteLen == 2

MaxGroupLen == 3

MaxSchemaEntries == 1

(* per-byte rates and flat fees: around the floor, and around 2^63 *)
Fees == {ZeroU64, U64(10), U64(MinTxnFee - 1), U64(MinTxnFee),
         BelowHighBitU64, HighBitU64}

Notes == {Rep(n, 9) : n \in 0..MaxNoteLen}

BadAddress == "ADDR_X"

(* raw genesis hashes: absent, short, exact, long *)
RawHashes == {<<>>, Rep(5, 7), Rep(DigestLen, 7), Rep(DigestLen, 7) \o <<8>>}

(* base64 strings of 32, 31 and 33 bytes, one with a character outside the *)
(* alphabet, and the empty string                                           *)
B64Of32 == [i \in 1..44 |-> IF i = 44 THEN PadChar ELSE 7]

B64Of31 == [i \in 1..44 |-> IF i >= 43 THEN PadChar ELSE 7]

B64Of33 == Rep(44, 7)

B64Malformed == [i \in 1..44 |-> IF i = 44 THEN PadChar
                                 ELSE IF i = 3 THEN BadChar ELSE 7]

B64Hashes == {B64Of32, B64Of31, B64Of33, B64Malformed, <<>>}

PaymentArgs ==
    [from : {"ADDR_A", BadAddress}, to : {"ADDR_B", BadAddress},
     fee : Fees, amount : {5000000}, firstRound : {1000}, lastRound : {2000},
     note : Notes, closeRemainderTo : {"", "ADDR_C", BadAddress},
     genesisID : {"testnet-v1.0"}, genesisHash : RawHashes,
     signFails : BOOLEAN]

KeyRegArgs ==
    [account : {"ADDR_A", BadAddress}, fee : Fees,
     firstRound : {1000}, lastRound : {2000}, note : Notes,
     genesisID : {"testnet-v1.0"}, genesisHash : B64Hashes,
     voteKey : {B64Of32, B64Of31}, selectionKey : {B64Of32, B64Malformed},
     voteFirst : {1000}, voteLast : {3000}, voteKeyDilution : {100},
     signFails : BOOLEAN]

AssetCreateArgs ==
    [account : {"ADDR_A", BadAddress}, fee : Fees,
     firstRound : {1000}, lastRound : {2000}, note : {<<>>},
     genesisID : {"testnet-v1.0"}, genesisHash : {B64Of32, B64Of31, B64Malformed},
     total : {100}, defaultFrozen : {FALSE},
     manager : {"", "ADDR_B", BadAddress}, reserve : {"", BadAddress},
     freeze : {"", "ADDR_C"}, clawback : {"", BadAddress},
     unitName : {<<>>, Rep(UnitNameLen, 85), Rep(UnitNameLen + 1, 85)},
     assetName : {Rep(AssetNameLen, 65), Rep(AssetNameLen + 1, 65)},
     signFails : BOOLEAN]

PaymentOps == {"MakePaymentTxn", "MakePaymentTxnWithFlatFee"}

KeyRegOps == {"MakeKeyRegTxn", "MakeKeyRegTxnWithFlatFee"}

AssetCreateOps == {"MakeAssetCreateTxn", "MakeAssetCreateTxnWithFlatFee"}

PerByteOps == {"MakePaymentTxn", "MakeKeyRegTxn", "MakeAssetCreateTxn"}

FlatFeeOps == {"MakePaymentTxnWithFlatFee", "MakeKeyRegTxnWithFlatFee",
               "MakeAssetCreateTxnWithFlatFee"}

Calls == [op : PaymentOps, a : PaymentArgs]
           \cup [op : KeyRegOps, a : KeyRegArgs]
           \cup [op : AssetCreateOps, a : AssetCreateArgs]

NoCall == [op |-> "none"]

NoRet == Return(ZeroTx, NoErr, <<>>)

NotBuilt == [called |-> FALSE, panic |-> FALSE, tx |-> NilTransaction]

----------------------------------------------------------------------------
(* Spec: one call of a constructor on any of the inputs.                    *)

Init ==
    /\ pc = "call"
    /\ call \in Calls
    /\ ret = NoRet
    /\ txns = <<>>
    /\ builder = ZeroBuilder
    /\ built = NotBuilt

Returns(r) ==
    /\ pc' = "returned"
    /\ ret' = r
    /\ UNCHANGED <<call, txns, builder, built>>

CallMakePaymentTxn ==
    /\ pc = "call" /\ call.op = "MakePaymentTxn"
    /\ Returns(MakePaymentTxn(call.a))

CallMakePaymentTxnWithFlatFee ==
    /\ pc = "call" /\ call.op = "MakePaymentTxnWithFlatFee"
    /\ Returns(MakePaymentTxnWithFlatFee(call.a))

CallMakeKeyRegTxn ==
    /\ pc = "call" /\ call.op = "MakeKeyRegTxn"
    /\ Returns(MakeKeyRegTxn(call.a))

CallMakeKeyRegTxnWithFlatFee ==
    /\ pc = "call" /\ call.op = "MakeKeyRegTxnWithFlatFee"
    /\ Returns(MakeKeyRegTxnWithFlatFee(call.a))

CallMakeAssetCreateTxn ==
    /\ pc = "call" /\ call.op = "MakeAssetCreateTxn"
    /\ Returns(MakeAssetCreateTxn(call.a))

CallMakeAssetCreateTxnWithFlatFee ==
    /\ pc = "call" /\ call.op = "MakeAssetCreateTxnWithFlatFee"
    /\ Returns(MakeAssetCreateTxnWithFlatFee(call.a))

Next ==
    \/ CallMakePaymentTxn
    \/ CallMakePaymentTxnWithFlatFee
    \/ CallMakeKeyRegTxn
    \/ CallMakeKeyRegTxnWithFlatFee
    \/ CallMakeAssetCreateTxn
    \/ CallMakeAssetCreateTxnWithFlatFee

Spec == Init /\ [][Next]_vars

----------------------------------------------------------------------------
(* GroupSpec: one call of AssignGroupID on a slice of built transactions.   *)

SamplePayment(from, note) ==
    MakePaymentTxn([from |-> from, to |-> "ADDR_B", fee |-> U64(10),
                    amount |-> 5000000, firstRound |-> 1000, lastRound |-> 2000,
                    note |-> note, closeRemainderTo |-> "",
                    genesisID |-> "testnet-v1.0",
                    genesisHash |-> Rep(DigestLen, 7), signFails |-> FALSE]).tx

(* a transaction that an earlier call has bound to a group of its own *)
SampleGrouped ==
    AssignGroupID(<<SamplePayment("ADDR_C", <<>>)>>, "", FALSE).result[1]

SampleTxns == {SamplePayment("ADDR_A", <<>>), SamplePayment("ADDR_A", <<9>>),
               SamplePayment("ADDR_B", <<>>), SampleGrouped}

SampleGroups == UNION {[1..n -> SampleTxns] : n \in 0..MaxGroupLen}

GroupCalls ==
    [op : {"AssignGroupID"}, txns : SampleGroups,
     account : {"", "ADDR_A", "ADDR_B", "ADDR_C", BadAddress},
     groupFails : BOOLEAN]

NoGroupRet == [result |-> <<>>, err |-> NoErr]

GroupInit ==
    /\ pc = "call"
    /\ call \in GroupCalls
    /\ txns = call.txns
    /\ ret = NoGroupRet
    /\ builder = ZeroBuilder
    /\ built = NotBuilt

CallAssignGroupID ==
    /\ pc = "call" /\ call.op = "AssignGroupID"
    /\ LET r == AssignGroupID(txns, call.account, call.groupFails)
       IN  /\ ret' = [result |-> r.result, err |-> r.err]
           /\ txns' = r.mem
    /\ pc' = "returned"
    /\ UNCHANGED <<call, builder, built>>

GroupNext == CallAssignGroupID

GroupSpec == GroupInit /\ [][GroupNext]_vars

----------------------------------------------------------------------------
(* BuilderSpec: setters on an ApplicationUpdateTransactionBuilder, in any   *)
(* order, and build().  A panic ends the program.                           *)

ApplicationIds == {0, 33, 7}

OnCompletions == {NoOpOC, OptInOC, 2}

StateSchemas == [NumUint : 0..MaxSchemaEntries, NumByteSlice : 0..MaxSchemaEntries]

BuilderInit ==
    /\ pc = "call"
    /\ call = NoCall
    /\ ret = NoRet
    /\ txns = <<>>
    /\ builder = ZeroBuilder
    /\ built = NotBuilt

SetApplicationId ==
    /\ ~built.panic
    /\ \E id \in ApplicationIds : builder' = applicationId(builder, id)
    /\ UNCHANGED <<pc, call, ret, txns, built>>

SetOnCompletion ==
    /\ ~built.panic
    /\ \E oc \in OnCompletions : builder' = onCompletion(builder, oc)
    /\ UNCHANGED <<pc, call, ret, txns, built>>

SetOptIn ==
    /\ ~built.panic
    /\ \E flag \in BOOLEAN : builder' = optIn(builder, flag)
    /\ UNCHANGED <<pc, call, ret, txns, built>>

SetLocalStateSchema ==
    /\ ~built.panic
    /\ \E schema \in StateSchemas : builder' = localStateSchema(builder, schema)
    /\ UNCHANGED <<pc, call, ret, txns, built>>

SetGlobalStateSchema ==
    /\ ~built.panic
    /\ \E schema \in StateSchemas : builder' = globalStateSchema(builder, schema)
    /\ UNCHANGED <<pc, call, ret, txns, built>>

Build ==
    /\ ~built.panic
    /\ LET r == build(builder)
       IN  built' = [called |-> TRUE, panic |-> r.panic, tx |-> r.tx]
    /\ UNCHANGED <<pc, call, ret, txns, builder>>

BuilderNext ==
    \/ SetApplicationId
    \/ SetOnCompletion
    \/ SetOptIn
    \/ SetLocalStateSchema
    \/ SetGlobalStateSchema
    \/ Build

BuilderSpec == BuilderInit /\ [][BuilderNext]_vars

----------------------------------------------------------------------------
(* Properties of the constructors (Spec).                                   *)

Returned(ops) == pc = "returned" /\ call.op \in ops

Constructors == PaymentOps \cup KeyRegOps \cup AssetCreateOps

(* the constructor a call names, applied to arguments a *)
Construct(op, a) ==
    CASE op = "MakePaymentTxn" -> MakePaymentTxn(a)
      [] op = "MakePaymentTxnWithFlatFee" -> MakePaymentTxnWithFlatFee(a)
      [] op = "MakeKeyRegTxn" -> MakeKeyRegTxn(a)
      [] op = "MakeKeyRegTxnWithFlatFee" -> MakeKeyRegTxnWithFlatFee(a)
      [] op = "MakeAssetCreateTxn" -> MakeAssetCreateTxn(a)
      [] op = "MakeAssetCreateTxnWithFlatFee" -> MakeAssetCreateTxnWithFlatFee(a)

InSeq(x, seq) == \E i \in 1..Len(seq) : seq[i] = x

(* C1: whenever any constructor returns without error, the Fee of the       *)
(* returned transaction is at least MinTxnFee (1000).                       *)
C1_FeeFloor ==
    Returned(Constructors) /\ ret.err = NoErr
        => LeU64(U64(MinTxnFee), ret.tx.Header.Fee)

(* C3: whenever any constructor returns an error, the transaction returned  *)
(* alongside it is the zero-valued record.                                  *)
C3_NoPartialRecordOnError ==
    Returned(Constructors) /\ ret.err # NoErr => ret.tx = ZeroTx

(* the bytes of the genesis hash a call passes: raw for the payment         *)
(* constructors, base64 for the others                                      *)
GenesisHashBytes(c) ==
    IF c.op \in PaymentOps THEN c.a.genesisHash
    ELSE Base64Decode(c.a.genesisHash).slice

(* C4: every constructor rejects a genesis hash whose decoded length is not *)
(* 32 bytes; a transaction is returned only for a hash of exactly 32 bytes, *)
(* and its GenesisHash is then those bytes.                                 *)
C4_GenesisHashExactly32 ==
    Returned(Constructors) /\ ret.err = NoErr
        => /\ Len(GenesisHashBytes(call)) = 32
           /\ ret.tx.Header.GenesisHash = GenesisHashBytes(call)

MaxOfU64(x, y) == IF LtU64(x, y) THEN y ELSE x

AddressFailure(c) ==
    IF c.op \in PaymentOps
    THEN \/ DecodeAddress(c.a.from).err # NoErr
         \/ DecodeAddress(c.a.to).err # NoErr
         \/ OptionalAddress(c.a.closeRemainderTo).err # NoErr
    ELSE IF c.op \in KeyRegOps
    THEN DecodeAddress(c.a.account).err # NoErr
    ELSE \/ DecodeAddress(c.a.account).err # NoErr
         \/ OptionalAddress(c.a.manager).err # NoErr
         \/ OptionalAddress(c.a.reserve).err # NoErr
         \/ OptionalAddress(c.a.freeze).err # NoErr
         \/ OptionalAddress(c.a.clawback).err # NoErr

GenesisHashFailure(c) ==
    IF c.op \in PaymentOps THEN Len(c.a.genesisHash) = 0
    ELSE byte32FromBase64(c.a.genesisHash).err # NoErr

GenesisHashErrors == {"genesisHash missing", "base64", "not 32 bytes"}

NameFailure(c) ==
    /\ c.op \in AssetCreateOps
    /\ \/ Len(c.a.unitName) > UnitNameLen
       \/ Len(c.a.assetName) > AssetNameLen

NameErrors == {"unit name too long", "asset name too long"}

(* C6: the error a constructor returns is that of the earliest failing step *)
(* in the order: address fields, genesis hash, fixed-length names.          *)
C6_ValidationOrder ==
    Returned(Constructors)
        => /\ AddressFailure(call) => ret.err = "address"
           /\ ~AddressFailure(call) /\ GenesisHashFailure(call)
                  => ret.err \in GenesisHashErrors
           /\ ~AddressFailure(call) /\ ~GenesisHashFailure(call) /\ NameFailure(call)
                  => ret.err \in NameErrors

(* C7: for fixed other arguments and per-byte rates r1 <= r2, the Fee       *)
(* returned for r2 is never smaller than the Fee returned for r1.           *)
C7_FeeMonotone ==
    Returned(PerByteOps) /\ ret.err = NoErr
        => \A r1 \in Fees :
              LeU64(r1, call.a.fee)
                  => LeU64(Construct(call.op, [call.a EXCEPT !.fee = r1]).tx.Header.Fee,
                           ret.tx.Header.Fee)

(* the optional address arguments of a call, each with the field of the    *)
(* returned transaction it fills                                            *)
OptionalAddresses(c, tx) ==
    IF c.op \in PaymentOps
    THEN {<<c.a.closeRemainderTo, tx.PaymentTxnFields.CloseRemainderTo>>}
    ELSE IF c.op \in AssetCreateOps
    THEN {<<c.a.manager, tx.AssetConfigTxnFields.AssetParams.Manager>>,
          <<c.a.reserve, tx.AssetConfigTxnFields.AssetParams.Reserve>>,
          <<c.a.freeze, tx.AssetConfigTxnFields.AssetParams.Freeze>>,
          <<c.a.clawback, tx.AssetConfigTxnFields.AssetParams.Clawback>>}
    ELSE {}

(* C8: an empty optional address is never handed to the address decoder     *)
(* and its field of the returned transaction is the zero address; a         *)
(* non-empty one is decoded into its field, and the constructor fails when  *)
(* it does not decode.                                                      *)
C8_OptionalAddresses ==
    Returned(PaymentOps \cup AssetCreateOps)
        => /\ ~InSeq("", ret.decoded)
           /\ \A p \in OptionalAddresses(call, ret.tx) :
                 /\ p[1] = "" /\ ret.err = NoErr => p[2] = ZeroAddress
                 /\ p[1] # "" /\ ret.err = NoErr
                        => p[2] = DecodeAddress(p[1]).addr /\ InSeq(p[1], ret.decoded)
                 /\ p[1] # "" /\ DecodeAddress(p[1]).err # NoErr => ret.err # NoErr

C8_Witness ==
    /\ Returned({"MakePaymentTxn"}) /\ ret.err = NoErr
    /\ call.a.closeRemainderTo = ""
    /\ ret.tx.PaymentTxnFields.CloseRemainderTo = ZeroAddress
    /\ ret.decoded = <<call.a.from, call.a.to>>
    /\ Construct(call.op, [call.a EXCEPT !.closeRemainderTo = BadAddress]).err = "address"

----------------------------------------------------------------------------
(* Properties of the group binder (GroupSpec).                              *)

GroupReturned == pc = "returned" /\ call.op = "AssignGroupID"

(* the transactions of the input the filter keeps, in input order *)
Kept(c) ==
    SelectSeq(c.txns,
              LAMBDA tx : c.account = ""
                          \/ tx.Header.Sender = DecodeAddress(c.account).addr)

WithGroup(tx, gid) == [tx EXCEPT !.Header.Group = gid]

(* the identifier of the whole input *)
WholeGroupID(c) == ComputeGroupID(c.txns, FALSE).gid

(* C2: on success AssignGroupID returns exactly the transactions whose      *)
(* Sender is the decoded account (all of them for ""), in input order, each *)
(* carrying the identifier computed over the whole input, which is the one  *)
(* an unfiltered call on the same input applies.                            *)
C2_GroupFilter ==
    GroupReturned /\ ret.err = NoErr
        => /\ Len(ret.result) = Len(Kept(call))
           /\ \A i \in 1..Len(ret.result) :
                 ret.result[i] = WithGroup(Kept(call)[i], WholeGroupID(call))
           /\ LET unfiltered == AssignGroupID(call.txns, "", FALSE).result
              IN  \A i \in 1..Len(ret.result), j \in 1..Len(unfiltered) :
                     ret.result[i].Header.Group = unfiltered[j].Header.Group

C2_Witness ==
    /\ GroupReturned /\ ret.err = NoErr
    /\ call.account = "ADDR_A"
    /\ Len(call.txns) = 3
    /\ Len(ret.result) = 2
    /\ ret.result[1] # ret.result[2]
    /\ call.txns[3].Header.Sender = DecodeAddress("ADDR_B").addr
    /\ ret.result[1].Header.Group = WholeGroupID(call)

(* C9: AssignGroupID leaves the caller's txns as it was, on success and on  *)
(* failure: same length, order, Group and other fields; the identifier is   *)
(* written only onto the copies in the result.                              *)
C9_InputUnchanged == GroupReturned => txns = call.txns

C9_Witness ==
    /\ GroupReturned /\ ret.err = NoErr
    /\ Len(ret.result) > 0
    /\ \A i \in 1..Len(txns) : txns[i].Header.Group # WholeGroupID(call)
    /\ \A i \in 1..Len(ret.result) : ret.result[i].Header.Group = WholeGroupID(call)
    /\ txns = call.txns

----------------------------------------------------------------------------
(* Properties of the builder (BuilderSpec).                                 *)

(* C10: after any sequence of setter calls, build() completes without a     *)
(* run-time fault and returns a transaction whose Type and field groups     *)
(* are the builder's.                                                       *)
C10_BuildReturnsBuilderFields ==
    built.called
        => /\ ~built.panic
           /\ ~built.tx.nil
           /\ built.tx.val.Type = builder.Type
           /\ built.tx.val.KeyregTxnFields = builder.KeyregTxnFields
           /\ built.tx.val.PaymentTxnFields = builder.PaymentTxnFields
           /\ built.tx.val.AssetConfigTxnFields = builder.AssetConfigTxnFields
           /\ built.tx.val.AssetTransferTxnFields = builder.AssetTransferTxnFields
           /\ built.tx.val.AssetFreezeTxnFields = builder.AssetFreezeTxnFields
           /\ built.tx.val.ApplicationCallTxnFields = builder.ApplicationCallTxnFields

====
